---- MODULE Spec2Model ----
(***************************************************************************)
(* A model of the graph preprocessing and the interaction engine of       *)
(* pyg_material / lcaonet:                                                 *)
(*   - BaseGNN.get_triplets           (src/pyg_material/model/base.py)     *)
(*   - BaseGNN.calc_atomic_distances  (src/pyg_material/model/base.py)     *)
(*   - LCAOInteraction.forward, LCAONet.__init__                           *)
(*                                    (src/lcaonet/model/lcaonet.py)       *)
(*   - EmbedElec, EmbedCoeffs, ValenceMask, LCAONet.forward, LCAOOut       *)
(*                                    (src/lcaonet/model/lcaonet.py)       *)
(*   - Node2Property2                 (src/src/pyggnn/nn/out.py)           *)
(*   - activation_resolver, init_resolver                                  *)
(*                                    (src/src/pyggnns/utils/resolve.py)   *)
(* Floats are exact fractions <<numerator, denominator>> in lowest terms.  *)
(* Tensors are sequences (position p of a tensor is element p + 1 of the   *)
(* sequence); the values stored in index tensors are the 0-based indices   *)
(* the code stores.  An optional value is <<>> (None) or <<v>>.            *)
(***************************************************************************)
EXTENDS Integers, Sequences, FiniteSets, TLC

VARIABLES
    data_batch,      \* the input graph batch handed to the BaseGNN methods
    pc,              \* position of the caller: which call has been made
    triplets,        \* Some(the tuple returned by get_triplets) or None
    prev_triplets,   \* Some(the (i, j, k) set of the call before a reorder)
    distances,       \* Some(the outcome of calc_atomic_distances) or None
    config,          \* Some(the keyword arguments given to LCAONet) or None
    net,             \* Some(the outcome of LCAONet.__init__) or None
    call,            \* Some(a call of LCAOInteraction.forward and its outcome)
    coeffs,          \* Some(a call of EmbedCoeffs.forward and its outcome)
    fwd,             \* Some(the values held by a running LCAONet.forward)
    prop,            \* Some(a call of an output layer and its outcome)
    resolved         \* Some(a call of a resolver and its outcome)

netVars == <<config, net, call>>
passVars == <<coeffs, fwd, prop, resolved>>
graphVars == <<data_batch, triplets, prev_triplets, distances>>
vars == <<data_batch, pc, triplets, prev_triplets, distances, config, net, call,
          coeffs, fwd, prop, resolved>>

\* ------------------------------------------------------------------ bounds
MaxNodes == 3
MaxEdges == 3

\* ------------------------------------------------------------- primitives
None == <<>>
Some(v) == <<v>>
IsNone(o) == o = <<>>
Get(o) == o[1]

\* element at 0-based position k of tensor s
At(s, k) == s[k + 1]

Size(s) == Len(s)

\* a tensor given element by element, materialised as a sequence
Tensor(f) == SubSeq(f, 1, Len(f))

\* torch.arange(n)
Arange(n) == Tensor([p \in 1..n |-> p - 1])

RECURSIVE Replicate(_, _)
Replicate(v, n) == IF n = 0 THEN <<>> ELSE <<v>> \o Replicate(v, n - 1)

\* Tensor.repeat_interleave(repeats): element p repeated repeats[p] times
RECURSIVE RepeatInterleave(_, _)
RepeatInterleave(s, repeats) ==
    IF s = <<>> THEN <<>>
    ELSE Replicate(Head(s), Head(repeats)) \o RepeatInterleave(Tail(s), Tail(repeats))

\* tensor[mask] for a boolean mask of the same length
RECURSIVE MaskSelect(_, _)
MaskSelect(s, m) ==
    IF s = <<>> THEN <<>>
    ELSE (IF Head(m) THEN <<Head(s)>> ELSE <<>>) \o MaskSelect(Tail(s), Tail(m))

\* tensor[index] for a long index tensor (a gather along dim 0)
Gather(s, index) == Tensor([p \in 1..Len(index) |-> At(s, index[p])])

\* torch.cumsum(s, dim=0) shifted: Cumsum0(s)[p] = s[1] + ... + s[p-1]
RECURSIVE SumSeq(_)
SumSeq(s) == IF s = <<>> THEN 0 ELSE Head(s) + SumSeq(Tail(s))

Cumsum0(s) == Tensor([p \in 1..Len(s) |-> SumSeq(SubSeq(s, 1, p - 1))])

\* ---------------------------------------------------------- SparseTensor
\* The orders in which SparseStorage may lay out the entries: every order
\* that is ascending in row * num_cols + col.  The argsort it uses is not
\* stable, so entries with equal keys (parallel edges) come in any order.
RECURSIVE SortOrders(_, _)
SortOrders(keys, left) ==
    IF left = {} THEN {<<>>}
    ELSE LET least == {p \in left : \A q \in left : keys[p] <= keys[q]}
         IN  UNION {{<<p>> \o rest : rest \in SortOrders(keys, left \ {p})} : p \in least}

StorageOrders(row, col, num_cols) ==
    SortOrders(Tensor([p \in 1..Len(row) |-> row[p] * num_cols + col[p]]), 1..Len(row))

\* SparseTensor(row, col, value, sparse_sizes) laid out in order `order`
SparseTensor(row, col, value, sparse_sizes, order) ==
    [row   |-> Tensor([p \in 1..Len(order) |-> row[order[p]]]),
     col   |-> Tensor([p \in 1..Len(order) |-> col[order[p]]]),
     value |-> Tensor([p \in 1..Len(order) |-> value[order[p]]]),
     sparse_sizes |-> sparse_sizes]

\* storage.rowcount(): entries per row, rows 0 .. sparse_sizes[1] - 1
Rowcount(sp) ==
    Tensor([r \in 1..sp.sparse_sizes[1] |-> Cardinality({p \in 1..Len(sp.row) : sp.row[p] = r - 1})])

\* storage.rowptr(): rowptr[r] is the position of the first entry of row r
Rowptr(sp) ==
    Cumsum0(Rowcount(sp) \o <<0>>)

\* SparseTensor.__getitem__(LongTensor) = index_select(src, 0, idx):
\* row e of the result is row idx[e] of src
IndexSelect(sp, idx) ==
    LET old_rowptr == Rowptr(sp)
        rowcount   == Gather(Rowcount(sp), idx)
        rowptr     == Cumsum0(rowcount)
        row        == RepeatInterleave(Arange(Len(idx)), rowcount)
        perm       == Tensor([p \in 1..Len(row) |->
                         (p - 1) + At(old_rowptr, At(idx, row[p])) - At(rowptr, row[p])])
    IN  [row   |-> row,
         col   |-> Gather(sp.col, perm),
         value |-> Gather(sp.value, perm),
         sparse_sizes |-> <<Len(idx), sp.sparse_sizes[2]>>]

\* ------------------------------------------------------------ get_triplets
\* faulty variants of the mask: nothing removed; i compared with the centre j
MaskAll(triple_idx_i, triple_idx_j, triple_idx_k) ==
    Tensor([p \in 1..Len(triple_idx_i) |-> TRUE])

MaskCentre(triple_idx_i, triple_idx_j, triple_idx_k) ==
    Tensor([p \in 1..Len(triple_idx_i) |-> triple_idx_i[p] # triple_idx_j[p]])

\* "Remove i == k triplets."
TripletMask(triple_idx_i, triple_idx_j, triple_idx_k) ==
    Tensor([p \in 1..Len(triple_idx_i) |-> triple_idx_i[p] # triple_idx_k[p]])

\* faulty variant: the entries are left in the order of the edge list
UnsortedLayout(idx_i, idx_j, num_nodes) ==
    {Tensor([p \in 1..Len(idx_i) |-> p])}

\* the layouts the adjacency storage may take; one is chosen per call
AdjLayouts(idx_i, idx_j, num_nodes) ==
    StorageOrders(idx_i, idx_j, num_nodes)

\* faulty variant: row = source j, col = target i
AdjNotTransposed(idx_i, idx_j, value, num_nodes, order) ==
    SparseTensor(idx_j, idx_i, value, <<num_nodes, num_nodes>>, order)

\* adj_t: row = target i, col = source j, value = edge index
AdjT(idx_i, idx_j, value, num_nodes, order) ==
    SparseTensor(idx_i, idx_j, value, <<num_nodes, num_nodes>>, order)

\* faulty variants: storage.rowptr() taken for storage.row(); the mask forgotten
EdgeIdxJiRowptr(adj_t_row, mask) ==
    Rowptr(adj_t_row)

EdgeIdxJiUnmasked(adj_t_row, mask) ==
    adj_t_row.row

\* edge_idx_ji: the row of adj_t_row each kept entry sits in
EdgeIdxJi(adj_t_row, mask) ==
    MaskSelect(adj_t_row.row, mask)

get_triplets(db, order) ==
    LET idx_j == db.Edge_index[1]
        idx_i == db.Edge_index[2]
        value == Arange(Size(idx_j))
        num_nodes == Size(db.Atom_numbers)
        adj_t == AdjT(idx_i, idx_j, value, num_nodes, order)
        adj_t_row == IndexSelect(adj_t, idx_j)
        num_triplets == Rowcount(adj_t_row)
        all_i == RepeatInterleave(idx_i, num_triplets)
        all_j == RepeatInterleave(idx_j, num_triplets)
        all_k == adj_t_row.col
        mask == TripletMask(all_i, all_j, all_k)
    IN  [idx_i |-> idx_i,
         idx_j |-> idx_j,
         triple_idx_i |-> MaskSelect(all_i, mask),
         triple_idx_j |-> MaskSelect(all_j, mask),
         triple_idx_k |-> MaskSelect(all_k, mask),
         edge_idx_kj |-> MaskSelect(adj_t_row.value, mask),
         edge_idx_ji |-> EdgeIdxJi(adj_t_row, mask)]

\* the layouts of the adjacency of a batch
BatchLayouts(db) ==
    AdjLayouts(db.Edge_index[2], db.Edge_index[1], Size(db.Atom_numbers))

\* --------------------------------------------------------------- inputs
Nodes(n) == 0..(n - 1)

\* a batch of n atoms (all hydrogen) with the given edges and no geometry
TripletBatch(n, js, is) ==
    [Atom_numbers |-> [a \in 1..n |-> 1], Edge_index |-> <<js, is>>]

\* the open chain A-B-C: edges A->B, B->A, B->C, C->B
ChainEdges(A, B, C) == <<<<A, B, B, C>>, <<B, A, C, B>>>>

\* the edge list with the edges at positions p and p + 1 exchanged
SwapAt(s, p) ==
    Tensor([q \in 1..Len(s) |-> IF q = p THEN s[p + 1] ELSE IF q = p + 1 THEN s[p] ELSE s[q]])

\* the reorderings one step away; repeated steps reach every permutation
Reorderings(ei) ==
    {<<SwapAt(ei[1], p), SwapAt(ei[2], p)>> : p \in 1..(Len(ei[1]) - 1)}

\* the set of (i, j, k) node triplets of a returned tuple
TripletSet(t) ==
    {<<t.triple_idx_i[p], t.triple_idx_j[p], t.triple_idx_k[p]>> : p \in 1..Len(t.triple_idx_i)}

\* --------------------------------------------------------------- actions
InitTriplets ==
    /\ \/ \E n \in 1..MaxNodes, e \in 0..MaxEdges :
             \E js \in [1..e -> Nodes(n)], is \in [1..e -> Nodes(n)] :
                data_batch = TripletBatch(n, js, is)
       \/ \E A \in 0..2, B \in 0..2, C \in 0..2 :
             /\ Cardinality({A, B, C}) = 3
             /\ data_batch = TripletBatch(3, ChainEdges(A, B, C)[1], ChainEdges(A, B, C)[2])
    /\ pc = "ready"
    /\ triplets = None
    /\ prev_triplets = None
    /\ distances = None
    /\ config = None /\ net = None /\ call = None
    /\ coeffs = None /\ fwd = None /\ prop = None /\ resolved = None

\* model.get_triplets(data_batch)
GetTriplets ==
    /\ pc = "ready"
    /\ \E order \in BatchLayouts(data_batch) :
          triplets' = Some(get_triplets(data_batch, order))
    /\ pc' = "done"
    /\ UNCHANGED <<data_batch, prev_triplets, distances, netVars, passVars>>

\* the caller hands the same edges in another order to model.get_triplets
GetTripletsReordered ==
    /\ pc = "done"
    /\ \E ei \in Reorderings(data_batch.Edge_index) :
          LET db == [data_batch EXCEPT !.Edge_index = ei]
          IN  /\ data_batch' = db
              /\ \E order \in BatchLayouts(db) :
                    triplets' = Some(get_triplets(db, order))
    /\ prev_triplets' = IF IsNone(prev_triplets) THEN Some(TripletSet(Get(triplets)))
                        ELSE prev_triplets
    /\ pc' = "done"
    /\ UNCHANGED <<distances, netVars, passVars>>

NextTriplets == GetTriplets \/ GetTripletsReordered

Spec == InitTriplets /\ [][NextTriplets]_vars

\* ------------------------------------------------ claims on get_triplets
\* the input edge list, as the code reads it: edge e goes Src(e) -> Dst(e)
NumEdges == Len(data_batch.Edge_index[1])
EdgeIds == 0..(NumEdges - 1)
Src(e) == At(data_batch.Edge_index[1], e)
Dst(e) == At(data_batch.Edge_index[2], e)
NumNodes == Len(data_batch.Atom_numbers)
Returned == Get(triplets)
NumTriplets == Len(Returned.triple_idx_i)

\* the ordered pairs of edges (a, b) = (k -> j, j -> i) that make a triplet
EdgePairs ==
    {ab \in EdgeIds \X EdgeIds : Dst(ab[1]) = Src(ab[2]) /\ Src(ab[1]) # Dst(ab[2])}

\* C1: get_triplets emits exactly one triplet for each ordered pair of edges
\* (a, b) with target(a) = source(b) and source(a) # target(b), and no other:
\* every emitted (i, j, k) has edges k -> j and j -> i with i # k, and every
\* such pair of edges is emitted, whatever reverse edges exist.
C1_TripletsExact ==
    pc = "done" =>
        /\ NumTriplets = Cardinality(EdgePairs)
        /\ \A ab \in EdgePairs :
              \E p \in 1..NumTriplets :
                 /\ Returned.edge_idx_kj[p] = ab[1]
                 /\ Returned.edge_idx_ji[p] = ab[2]
                 /\ Returned.triple_idx_k[p] = Src(ab[1])
                 /\ Returned.triple_idx_j[p] = Src(ab[2])
                 /\ Returned.triple_idx_i[p] = Dst(ab[2])
        /\ \A p \in 1..NumTriplets :
              LET i == Returned.triple_idx_i[p]
                  j == Returned.triple_idx_j[p]
                  k == Returned.triple_idx_k[p]
              IN  /\ i # k
                  /\ \E a \in EdgeIds : Src(a) = k /\ Dst(a) = j
                  /\ \E b \in EdgeIds : Src(b) = j /\ Dst(b) = i

\* a triplet is emitted through an edge k -> j whose reverse j -> k is absent
C1_Witness ==
    /\ pc = "done"
    /\ \E p \in 1..NumTriplets :
          /\ ~ \E r \in EdgeIds : Src(r) = Returned.triple_idx_j[p]
                                   /\ Dst(r) = Returned.triple_idx_k[p]
          /\ ~ \E r \in EdgeIds : Src(r) = Returned.triple_idx_i[p]
                                   /\ Dst(r) = Returned.triple_idx_j[p]

Indegree(j) == Cardinality({e \in EdgeIds : Dst(e) = j})
Outdegree(j) == Cardinality({e \in EdgeIds : Src(e) = j})
Collisions ==
    Cardinality({ab \in EdgeIds \X EdgeIds : Dst(ab[1]) = Src(ab[2]) /\ Src(ab[1]) = Dst(ab[2])})

RECURSIVE SumOver(_, _)
SumOver(f, S) ==
    IF S = {} THEN 0
    ELSE LET x == CHOOSE y \in S : TRUE IN f[x] + SumOver(f, S \ {x})

\* C2: the number of triplets is the sum over the nodes j of
\* indegree(j) * outdegree(j), minus the (k -> j, j -> i) pairs with k = i.
C2_TripletCount ==
    pc = "done" =>
        NumTriplets =
            SumOver([j \in Nodes(NumNodes) |-> Indegree(j) * Outdegree(j)], Nodes(NumNodes))
            - Collisions

\* triplets are returned for a graph that also has k = i collisions
C2_Witness ==
    pc = "done" /\ NumTriplets > 0 /\ Collisions > 0

\* C3: reordering the edge list does not change the set of (i, j, k) triplets.
C3_PermutationInvariant ==
    (pc = "done" /\ ~IsNone(prev_triplets)) => TripletSet(Returned) = Get(prev_triplets)

\* a second call on the reordered edges returned a non-empty triplet set
C3_Witness ==
    /\ pc = "done"
    /\ ~IsNone(prev_triplets)
    /\ Cardinality(TripletSet(Returned)) >= 2

\* C4: the five arrays have one length T; at every position t the kj edge
\* index is in [0, E) and names an edge k[t] -> j[t], the ji edge index is in
\* [0, E) and names an edge j[t] -> i[t], and k[t] is a node: the gathers and
\* the scatter of the interaction layer stay in range.
C4_AlignedInRange ==
    pc = "done" =>
        /\ Len(Returned.triple_idx_j) = NumTriplets
        /\ Len(Returned.triple_idx_k) = NumTriplets
        /\ Len(Returned.edge_idx_kj) = NumTriplets
        /\ Len(Returned.edge_idx_ji) = NumTriplets
        /\ \A t \in 1..NumTriplets :
              /\ Returned.edge_idx_kj[t] \in EdgeIds
              /\ Src(Returned.edge_idx_kj[t]) = Returned.triple_idx_k[t]
              /\ Dst(Returned.edge_idx_kj[t]) = Returned.triple_idx_j[t]
              /\ Returned.edge_idx_ji[t] \in EdgeIds
              /\ Src(Returned.edge_idx_ji[t]) = Returned.triple_idx_j[t]
              /\ Dst(Returned.edge_idx_ji[t]) = Returned.triple_idx_i[t]
              /\ Returned.triple_idx_k[t] \in Nodes(NumNodes)

\* several triplets are returned, some dropped by the mask
C4_Witness ==
    pc = "done" /\ NumTriplets >= 2 /\ Collisions > 0

\* the atoms joined to j by an edge in either direction
Neighbours(j) ==
    {n \in Nodes(NumNodes) : \E e \in EdgeIds : \/ Src(e) = j /\ Dst(e) = n
                                                \/ Src(e) = n /\ Dst(e) = j}

IsChain(A, B, C) ==
    /\ Cardinality({A, B, C}) = 3
    /\ NumEdges = 4
    /\ {<<Src(e), Dst(e)>> : e \in EdgeIds} = {<<A, B>>, <<B, A>>, <<B, C>>, <<C, B>>}

\* C5: a node with at most one neighbour is the centre j of no triplet; the
\* open chain A-B-C yields exactly the 2 triplets (A,B,C) and (C,B,A).
C5_LowDegreeAndChain ==
    pc = "done" =>
        /\ \A j \in Nodes(NumNodes) :
              Cardinality(Neighbours(j)) <= 1 =>
                 \A t \in 1..NumTriplets : Returned.triple_idx_j[t] # j
        /\ \A A \in Nodes(NumNodes), B \in Nodes(NumNodes), C \in Nodes(NumNodes) :
              IsChain(A, B, C) =>
                 /\ NumTriplets = 2
                 /\ TripletSet(Returned) = {<<A, B, C>>, <<C, B, A>>}

\* get_triplets has run on the open chain 0-1-2
C5_Witness ==
    pc = "done" /\ IsChain(0, 1, 2) /\ NumTriplets = 2

\* C6: an empty edge list gives empty triplet arrays.
C6_EmptyEdgeList ==
    (pc = "done" /\ NumEdges = 0) =>
        /\ Returned.triple_idx_i = <<>>
        /\ Returned.triple_idx_j = <<>>
        /\ Returned.triple_idx_k = <<>>
        /\ Returned.edge_idx_kj = <<>>
        /\ Returned.edge_idx_ji = <<>>

\* get_triplets has returned for a graph of several atoms and no edge
C6_Witness ==
    pc = "done" /\ NumEdges = 0 /\ NumNodes >= 2

\* --------------------------------------------------- calc_atomic_distances
\* Position.new_zeros(n, dtype=torch.long)
NewZeros(n) == Tensor([p \in 1..n |-> 0])

VecAdd(u, v) == Tensor([c \in 1..Len(u) |-> u[c] + v[c]])
VecSub(u, v) == Tensor([c \in 1..Len(u) |-> u[c] - v[c]])

\* faulty variant: the lattice transposed ("ni,nji->nj")
EinsumTransposed(a, m) ==
    Tensor([n \in 1..Len(a) |->
        Tensor([j \in 1..Len(a[n]) |->
            SumSeq(Tensor([i \in 1..Len(a[n]) |-> a[n][i] * m[n][j][i]]))])])

\* torch.einsum("ni,nij->nj", a, m): out[n][j] = sum over i of a[n][i] * m[n][i][j]
Einsum(a, m) ==
    Tensor([n \in 1..Len(a) |->
        Tensor([j \in 1..Len(a[n]) |->
            SumSeq(Tensor([i \in 1..Len(a[n]) |-> a[n][i] * m[n][i][j]]))])])

\* the non-negative square root of a non-negative integer, kept exact
Sqrt(n) == [sqrt_of |-> n]

\* torch.norm(edge_vec, dim=1)
Norm(edge_vec) ==
    Tensor([n \in 1..Len(edge_vec) |->
        Sqrt(SumSeq(Tensor([c \in 1..Len(edge_vec[n]) |-> edge_vec[n][c] * edge_vec[n][c]])))])

\* data_batch.get(DataKeys.Batch), or the all-zero batch when it is None
BatchOf(db) ==
    IF ~IsNone(db.Batch) THEN Get(db.Batch) ELSE NewZeros(Len(db.Position))

\* data_batch[key] raises when the batch does not hold key
Raises(db) == IsNone(db.Edge_shift) \/ IsNone(db.Lattice)

calc_atomic_distances(db) ==
    LET batch == BatchOf(db)
        edge_src == db.Edge_index[1]
        edge_dst == db.Edge_index[2]
        edge_batch == Gather(batch, edge_src)
    IN  IF Raises(db)
        THEN [status |-> "KeyError", distance |-> <<>>]
        ELSE LET between == Tensor([n \in 1..Len(edge_src) |->
                               VecSub(At(db.Position, edge_dst[n]), At(db.Position, edge_src[n]))])
                 shifted == Einsum(Get(db.Edge_shift), Gather(Get(db.Lattice), edge_batch))
                 edge_vec == Tensor([n \in 1..Len(edge_src) |-> VecAdd(between[n], shifted[n])])
             IN  [status |-> "ok", distance |-> Norm(edge_vec)]

\* ------------------------------------------------------- geometry inputs
MaxGeomEdges == 2

PositionVectors == {<<0, 0, 0>>, <<1, 2, 2>>}
ShiftVectors == {<<0, 0, 0>>, <<1, 0, 0>>, <<0, -1, 1>>}
ZeroLattice == <<<<0, 0, 0>>, <<0, 0, 0>>, <<0, 0, 0>>>>
Lattices == {ZeroLattice,
             <<<<4, 0, 0>>, <<1, 4, 0>>, <<0, 2, 5>>>>,
             <<<<3, 1, 0>>, <<0, 3, 0>>, <<0, 0, 3>>>>}

\* two atoms: no batch index, one structure, or two structures of one atom
BatchIndexes == {None, Some(<<0, 0>>), Some(<<0, 1>>)}

NumStructures(b) == IF IsNone(b) THEN 1 ELSE Get(b)[Len(Get(b))] + 1

\* an edge joins atoms of one structure
SameStructure(b, j, i) == IF IsNone(b) THEN TRUE ELSE At(Get(b), j) = At(Get(b), i)

InitGeom ==
    /\ \E b \in BatchIndexes, e \in 0..MaxGeomEdges :
       \E pos \in [1..2 -> PositionVectors],
          js \in [1..e -> Nodes(2)], is \in [1..e -> Nodes(2)],
          shift \in {None} \cup {Some(sh) : sh \in [1..e -> ShiftVectors]},
          lat \in {None} \cup {Some(l) : l \in [1..NumStructures(b) -> Lattices]} :
             /\ \A n \in 1..e : SameStructure(b, js[n], is[n])
             /\ data_batch = [Atom_numbers |-> <<1, 1>>,
                              Batch |-> b,
                              Position |-> pos,
                              Edge_index |-> <<js, is>>,
                              Edge_shift |-> shift,
                              Lattice |-> lat]
    /\ pc = "ready"
    /\ triplets = None
    /\ prev_triplets = None
    /\ distances = None
    /\ config = None /\ net = None /\ call = None
    /\ coeffs = None /\ fwd = None /\ prop = None /\ resolved = None

\* model.calc_atomic_distances(data_batch)
CalcAtomicDistances ==
    /\ pc = "ready"
    /\ distances' = Some(calc_atomic_distances(data_batch))
    /\ pc' = "done"
    /\ UNCHANGED <<data_batch, triplets, prev_triplets, netVars, passVars>>

NextGeom == CalcAtomicDistances

SpecGeom == InitGeom /\ [][NextGeom]_vars

\* ---------------------------------------- claims on calc_atomic_distances
Outcome == Get(distances)

\* the batch (structure) of an atom: the given one, else structure 0
StructureOf(a) == IF IsNone(data_batch.Batch) THEN 0 ELSE At(Get(data_batch.Batch), a)

\* component c of position[target] - position[source] of edge e
Between(e, c) == At(data_batch.Position, Dst(e))[c] - At(data_batch.Position, Src(e))[c]

\* component c of shift[e] . lattice[batch[source]]
ShiftTerm(e, c) ==
    LET sh == At(Get(data_batch.Edge_shift), e)
        lat == At(Get(data_batch.Lattice), StructureOf(Src(e)))
    IN  sh[1] * lat[1][c] + sh[2] * lat[2][c] + sh[3] * lat[3][c]

Squares(d1, d2, d3) == d1 * d1 + d2 * d2 + d3 * d3

NoShift(e) ==
    \/ At(Get(data_batch.Edge_shift), e) = <<0, 0, 0>>
    \/ At(Get(data_batch.Lattice), StructureOf(Src(e))) = ZeroLattice

\* C7: with the periodic data present, the distance of every edge is the
\* norm of position[target] - position[source] + shift . lattice[batch[source]];
\* it is the plain distance of the two positions when the shift or the
\* lattice is zero, and it is never negative.
C7_Distance ==
    (pc = "done" /\ ~IsNone(distances) /\ ~Raises(data_batch)) =>
        /\ Outcome.status = "ok"
        /\ Len(Outcome.distance) = NumEdges
        /\ \A e \in EdgeIds :
              /\ At(Outcome.distance, e) =
                    Sqrt(Squares(Between(e, 1) + ShiftTerm(e, 1),
                                 Between(e, 2) + ShiftTerm(e, 2),
                                 Between(e, 3) + ShiftTerm(e, 3)))
              /\ NoShift(e) =>
                    At(Outcome.distance, e) =
                       Sqrt(Squares(Between(e, 1), Between(e, 2), Between(e, 3)))
              /\ At(Outcome.distance, e).sqrt_of >= 0

\* a distance is returned for an edge of the second structure whose shift
\* and lattice are not zero, beside an edge with a zero shift
C7_Witness ==
    /\ pc = "done" /\ ~IsNone(distances) /\ ~Raises(data_batch)
    /\ \E e \in EdgeIds : StructureOf(Src(e)) = 1 /\ ~NoShift(e)
                          /\ ShiftTerm(e, 1) # 0 /\ ShiftTerm(e, 2) # 0
    /\ \E e \in EdgeIds : NoShift(e)

\* C8: without periodic data (no per-edge shift, no lattice) the call still
\* succeeds and returns the plain distance between the two positions.
C8_NoPeriodicData ==
    (pc = "done" /\ ~IsNone(distances)
        /\ IsNone(data_batch.Edge_shift) /\ IsNone(data_batch.Lattice)) =>
        /\ Outcome.status = "ok"
        /\ Len(Outcome.distance) = NumEdges
        /\ \A e \in EdgeIds :
              At(Outcome.distance, e) =
                 Sqrt(Squares(Between(e, 1), Between(e, 2), Between(e, 3)))

\* ------------------------------------------------------------- resolvers
\* A string is the sequence of its characters.
UpperCase == <<"A", "B", "C", "D", "E", "F", "G", "H", "I", "J", "K", "L", "M",
               "N", "O", "P", "Q", "R", "S", "T", "U", "V", "W", "X", "Y", "Z">>
LowerCase == <<"a", "b", "c", "d", "e", "f", "g", "h", "i", "j", "k", "l", "m",
               "n", "o", "p", "q", "r", "s", "t", "u", "v", "w", "x", "y", "z">>

\* str.lower()
LowerChar(c) ==
    IF \E p \in 1..Len(UpperCase) : UpperCase[p] = c
    THEN LowerCase[CHOOSE p \in 1..Len(UpperCase) : UpperCase[p] = c]
    ELSE c

Lower(s) == Tensor([p \in 1..Len(s) |-> LowerChar(s[p])])

IsKept(c) == c \notin {"-", "_", " "}

\* s.lower().replace("-", "").replace("_", "").replace(" ", "")
normalize_string(s) == SelectSeq(Lower(s), IsKept)

\* the names of the classes (functions) each resolver looks through
ActivationClasses ==
    {<<"S", "i", "L", "U">>, <<"R", "e", "L", "U">>, <<"S", "w", "i", "s", "h">>}
InitFunctions ==
    {<<"g", "l", "o", "r", "o", "t", "_", "o", "r", "t", "h", "o", "g", "o", "n", "a", "l">>,
     <<"o", "r", "t", "h", "o", "g", "o", "n", "a", "l", "_">>}

\* faulty variant: an unknown name is answered with some class of the list
resolverDefault(query, classes) ==
    LET hits == {cls \in classes : normalize_string(Lower(cls)) = query}
    IN  [status |-> "ok",
         cls |-> IF hits # {} THEN CHOOSE cls \in hits : TRUE
                 ELSE CHOOSE cls \in classes : TRUE]

\* _resolver for a string query: the class whose normalised name is the
\* query, or ValueError("... not found")
resolver(query, classes) ==
    LET hits == {cls \in classes : normalize_string(Lower(cls)) = query}
    IN  IF hits # {} THEN [status |-> "ok", cls |-> CHOOSE cls \in hits : TRUE]
        ELSE [status |-> "ValueError", cls |-> <<>>]

activation_resolver(query) == resolver(normalize_string(query), ActivationClasses)
init_resolver(query) == resolver(normalize_string(query), InitFunctions)

\* ------------------------------------------------------- LCAONet.__init__
CutoffMessage == "cutoff must be specified when cutoff_net is used"
NotFoundMessage == "not found"

\* Python truthiness of an optional string: None and "" are false
Truthy(o) == ~IsNone(o) /\ Get(o) # <<>>

\* faulty variant: "if cutoff_net and cutoff is None"
CutoffCheckTruthy(cfg) == Truthy(cfg.cutoff_net) /\ IsNone(cfg.cutoff)

\* "if cutoff_net is not None and cutoff is None"
CutoffCheckFails(cfg) == ~IsNone(cfg.cutoff_net) /\ IsNone(cfg.cutoff)

\* LCAOInteraction.__init__: the layer keeps add_valence
LCAOInteraction_init(add_valence) == [add_valence |-> add_valence]

Failed(message) ==
    [status |-> "ValueError", message |-> message, built |-> <<>>, int_layers |-> <<>>]

\* the components __init__ builds once its checks have passed, in order
Components(cfg) ==
    <<"elec_info", "rbf", "shbf">>
    \o (IF Truthy(cfg.cutoff_net) THEN <<"cn">> ELSE <<>>)
    \o <<"z_embed", "e_embed", "node_embed", "coeff_embed">>
    \o (IF cfg.add_valence THEN <<"valence_mask">> ELSE <<>>)
    \o Replicate("int_layer", cfg.n_interaction)
    \o <<"out_layer", "pp_layer">>

LCAONet_init(cfg) ==
    IF ~IsNone(cfg.weight_init) /\ init_resolver(Get(cfg.weight_init)).status # "ok"
    THEN Failed(NotFoundMessage)
    ELSE IF activation_resolver(cfg.activation).status # "ok"
    THEN Failed(NotFoundMessage)
    ELSE IF CutoffCheckFails(cfg)
    THEN Failed(CutoffMessage)
    ELSE [status |-> "ok",
          message |-> "",
          built |-> Components(cfg),
          int_layers |-> Replicate(LCAOInteraction_init(cfg.add_valence), cfg.n_interaction)]

\* ------------------------------------------------ LCAOInteraction.forward
\* faulty variant: no check of the mask
MaskCheckNever(layer, valence_mask) == FALSE

\* "if self.add_valence and valence_mask is None: raise ValueError"
MaskCheckFails(layer, valence_mask) == layer.add_valence /\ IsNone(valence_mask)

\* the valence contribution is computed behind "if self.add_valence"
ValencePath(layer, valence_mask) == layer.add_valence

\* The stages of one call, in the order the code runs them; x is the node
\* embedding, written as the sequence of layer updates applied to it.
LCAOInteraction_forward(layer, x, valence_mask, cutoff_w) ==
    IF MaskCheckFails(layer, valence_mask)
    THEN [status |-> "ValueError", stages |-> <<>>, x |-> None]
    ELSE [status |-> "ok",
          stages |->
              <<"node_weight", "f_coeffs">>
              \o (IF ~IsNone(cutoff_w) THEN <<"cutoff">> ELSE <<>>)
              \o <<"three_body">>
              \o (IF ValencePath(layer, valence_mask) THEN <<"three_body_valence">> ELSE <<>>)
              \o <<"f_three", "inject", "two_body">>
              \o (IF ValencePath(layer, valence_mask) THEN <<"two_body_valence">> ELSE <<>>)
              \o <<"basis_weight", "f_node", "out_weight">>,
          x |-> Some(Append(x, "layer"))]

\* ------------------------------------------------------------ net inputs
MaxInteractions == 2

ActivationQueries ==
    {<<"S", "i", "L", "U">>, <<"s", "w", "i", "s", "h">>, <<"R", "e", "-", "L", "U">>,
     <<"G", "e", "L", "U", "2">>}
InitQueries ==
    {None,
     Some(<<"g", "l", "o", "r", "o", "t", "o", "r", "t", "h", "o", "g", "o", "n", "a", "l">>),
     Some(<<"O", "r", "t", "h", "o", "g", "o", "n", "a", "l">>),
     Some(<<"n", "o", "n", "e">>)}
CutoffNets == {None, Some(<<>>), Some(<<"p", "o", "l", "y", "n", "o", "m", "i", "a", "l">>)}
Cutoffs == {None, Some(5)}

\* an edge-wise tensor handed to a layer when it is present
SomeMask == Some(<<<<1, 0>>>>)
SomeCutoffW == Some(<<1>>)

InitNet ==
    /\ \E co \in Cutoffs, cn \in CutoffNets, av \in BOOLEAN, n \in 0..MaxInteractions,
          act \in ActivationQueries, wi \in InitQueries :
          config = Some([cutoff |-> co, cutoff_net |-> cn, add_valence |-> av,
                         n_interaction |-> n, activation |-> act, weight_init |-> wi])
    /\ net = None
    /\ call = None
    /\ coeffs = None /\ fwd = None /\ prop = None /\ resolved = None
    /\ data_batch = TripletBatch(1, <<>>, <<>>)
    /\ pc = "ready"
    /\ triplets = None
    /\ prev_triplets = None
    /\ distances = None

\* LCAONet(**config)
Construct ==
    /\ pc = "ready"
    /\ ~IsNone(config)
    /\ net' = Some(LCAONet_init(Get(config)))
    /\ pc' = "built"
    /\ UNCHANGED <<data_batch, triplets, prev_triplets, distances, config, call, passVars>>

\* net.int_layers[l](x, cji, valence_mask, cutoff_w, ...)
CallLayer ==
    /\ pc = "built"
    /\ Get(net).status = "ok"
    /\ \E l \in 1..Len(Get(net).int_layers),
          valence_mask \in {None, SomeMask}, cutoff_w \in {None, SomeCutoffW} :
          call' = Some([layer |-> Get(net).int_layers[l],
                        valence_mask |-> valence_mask,
                        cutoff_w |-> cutoff_w,
                        out |-> LCAOInteraction_forward(Get(net).int_layers[l], <<>>,
                                                        valence_mask, cutoff_w)])
    /\ pc' = "called"
    /\ UNCHANGED <<data_batch, triplets, prev_triplets, distances, config, net, passVars>>

NextNet == Construct \/ CallLayer

SpecNet == InitNet /\ [][NextNet]_vars

\* ------------------------------------------- claims on the configuration
Call == Get(call)

\* C9: a layer built with add_valence=True and called without a valence
\* mask fails at the start of the call, before any node or coefficient
\* transformation, and returns no embeddings; every stage of a call that
\* does return with add_valence=True includes the valence contribution;
\* with add_valence=False a missing mask is accepted.
C9_MissingMaskFails ==
    pc = "called" =>
        /\ (Call.layer.add_valence /\ IsNone(Call.valence_mask)) =>
              /\ Call.out.status = "ValueError"
              /\ Call.out.stages = <<>>
              /\ IsNone(Call.out.x)
        /\ (Call.layer.add_valence /\ Call.out.status = "ok") =>
              /\ ~IsNone(Call.valence_mask)
              /\ \E p \in 1..Len(Call.out.stages) : Call.out.stages[p] = "three_body_valence"
              /\ \E p \in 1..Len(Call.out.stages) : Call.out.stages[p] = "two_body_valence"
        /\ (~Call.layer.add_valence /\ IsNone(Call.valence_mask)) =>
              /\ Call.out.status = "ok"
              /\ ~IsNone(Call.out.x)

\* a layer with add_valence=True has been called without a mask
C9_Witness ==
    pc = "called" /\ Call.layer.add_valence /\ IsNone(Call.valence_mask)
                  /\ Call.out.status = "ValueError"

Config == Get(config)
Net == Get(net)

C10_NamesResolve ==
    /\ activation_resolver(Config.activation).status = "ok"
    /\ IsNone(Config.weight_init) \/ init_resolver(Get(Config.weight_init)).status = "ok"

\* C10: constructing LCAONet with cutoff_net not None and cutoff None fails
\* during construction, before any basis, embedding or interaction layer is
\* built; every other combination of the two options passes this check.
C10_CutoffNetNeedsCutoff ==
    pc = "built" =>
        /\ (~IsNone(Config.cutoff_net) /\ IsNone(Config.cutoff)) =>
              /\ Net.status = "ValueError"
              /\ Net.built = <<>>
              /\ Net.int_layers = <<>>
              /\ C10_NamesResolve => Net.message = CutoffMessage
        /\ ~(~IsNone(Config.cutoff_net) /\ IsNone(Config.cutoff)) =>
              /\ Net.message # CutoffMessage
              /\ C10_NamesResolve =>
                    /\ Net.status = "ok"
                    /\ \E p \in 1..Len(Net.built) : Net.built[p] = "rbf"

\* the empty cutoff_net name without a cutoff was rejected, its names valid
C10_Witness ==
    /\ pc = "built"
    /\ Config.cutoff_net = Some(<<>>)
    /\ IsNone(Config.cutoff)
    /\ C10_NamesResolve
    /\ Net.status = "ValueError"

\* ---------------------------------------------------------- exact numbers
\* A float is kept exactly, as the fraction <<n, d>> in lowest terms, d > 0.
RECURSIVE GCD(_, _)
GCD(a, b) == IF b = 0 THEN a ELSE GCD(b, a % b)

Frac(n, d) ==
    LET g == GCD(IF n < 0 THEN -n ELSE n, IF d < 0 THEN -d ELSE d)
        s == IF d < 0 THEN -1 ELSE 1
    IN  <<(s * n) \div g, (s * d) \div g>>

Q(n) == <<n, 1>>

QAdd(a, b) ==
    IF a[2] = b[2] /\ a[2] = 1 THEN <<a[1] + b[1], 1>>
    ELSE LET g == GCD(a[2], b[2])
         IN  Frac(a[1] * (b[2] \div g) + b[1] * (a[2] \div g), (a[2] \div g) * b[2])

QMul(a, b) ==
    IF a[2] = b[2] /\ a[2] = 1 THEN <<a[1] * b[1], 1>>
    ELSE Frac(a[1] * b[1], a[2] * b[2])

QLess(a, b) == a[1] * b[2] < b[1] * a[2]

RECURSIVE QSum(_)
QSum(s) == IF s = <<>> THEN Q(0) ELSE QAdd(Head(s), QSum(Tail(s)))

\* a tensor of integers as a tensor of floats
Floats(s) == Tensor([p \in 1..Len(s) |-> Q(s[p])])

\* ------------------------------------------------------------ activations
\* torch.nn.Hardsigmoid: relu6(x + 3) / 6
Hardsigmoid(q) ==
    IF QLess(q, Q(-3)) THEN Q(0)
    ELSE IF QLess(Q(3), q) THEN Q(1)
    ELSE QMul(QAdd(q, Q(3)), Frac(1, 6))

\* The activation module a name resolves to, applied to one element.  The
\* piecewise-linear activations are the ones that are exact on fractions.
Activation(name, q) ==
    CASE name = "ReLU" -> IF QLess(q, Q(0)) THEN Q(0) ELSE q
      [] name = "Hardswish" -> QMul(q, Hardsigmoid(q))
      [] name = "Hardsigmoid" -> Hardsigmoid(q)

\* torch.sigmoid: 1/2 at 0; elsewhere the value is not a fraction and is
\* kept as the term sigmoid_of
Sigmoid(q) == IF q = Q(0) THEN Frac(1, 2) ELSE [sigmoid_of |-> q]

\* one output feature of Dense: weight . v + bias (bias 0 when bias=False)
Linear(weight, bias, v) ==
    QAdd(QSum(Tensor([p \in 1..Len(v) |-> QMul(weight[p], v[p])])), bias)

\* ---------------------------------------------------- EmbedElec, EmbedCoeffs
\* The embedding dimensions are 1: a vector is its only component.
\* nn.Embedding(m, embed_dim, padding_idx=None if extend_orb else 0) after
\* reset_parameters: _fill_padding_idx_with_zero() unless extend_orb
EmbedElec_init(extend_orb, tables) ==
    [extend_orb |-> extend_orb,
     e_embeds |-> Tensor([o \in 1..Len(tables) |->
                     IF extend_orb THEN tables[o]
                     ELSE Tensor([r \in 1..Len(tables[o]) |->
                              IF r = 1 THEN Q(0) ELSE tables[o][r]])])]

\* EmbedElec.forward: e_embed[n][o] = e_embeds[o](elec[z[n]][o])
EmbedElec_forward(self, elec) ==
    Tensor([n \in 1..Len(elec) |->
        Tensor([o \in 1..Len(self.e_embeds) |-> At(self.e_embeds[o], elec[n][o])])])

\* f_z: Dense(2 * z_dim, hidden, bias), act, Dense(hidden, hidden, bias), act
f_z(self, zi, zj) ==
    Activation(self.activation,
        Linear(self.z2, self.zb2,
            <<Activation(self.activation, Linear(self.z1, self.zb1, <<zi, zj>>))>>))

\* f_e: Dense(e_dim, hidden, no bias), act, Dense(hidden, hidden, no bias), act
f_e(self, e) ==
    Activation(self.activation,
        Linear(self.e2, Q(0),
            <<Activation(self.activation, Linear(self.e1, Q(0), <<e>>))>>))

\* EmbedCoeffs.forward
EmbedCoeffs_forward(self, z_embed, e_embed, idx_i, idx_j) ==
    LET z  == Tensor([e \in 1..Len(idx_i) |->
                  f_z(self, At(z_embed, idx_i[e]), At(z_embed, idx_j[e]))])
        fe == Tensor([n \in 1..Len(e_embed) |->
                  Tensor([o \in 1..Len(e_embed[n]) |-> f_e(self, e_embed[n][o])])])
        ee == Gather(fe, idx_j)
    IN  Tensor([e \in 1..Len(idx_j) |->
            Tensor([o \in 1..Len(ee[e]) |-> QAdd(ee[e][o], QMul(ee[e][o], z[e]))])])

\* --------------------------------------------------------- embedding inputs
ActivationNames == {"ReLU", "Hardswish", "Hardsigmoid"}

\* rows of self.elec: for each orbital, the index of the number of electrons
ElecRows == {<<0, 0>>, <<1, 0>>, <<1, 1>>}
\* the rows of one embedding table as drawn by uniform_(-sqrt(3), sqrt(3))
ElecTables == {<<<<1, -1>>, <<-1, 1>>>>, <<<<1, 1>>, <<1, 1>>>>}
\* the weights and biases of f_z, and the weights of f_e
GateWeights == {[z1 |-> <<1, 1>>, zb1 |-> 0, z2 |-> <<1>>, zb2 |-> 0],
                [z1 |-> <<1, 1>>, zb1 |-> 1, z2 |-> <<1>>, zb2 |-> 1],
                [z1 |-> <<1, -1>>, zb1 |-> 0, z2 |-> <<-1>>, zb2 |-> 2],
                [z1 |-> <<0, 0>>, zb1 |-> 0, z2 |-> <<0>>, zb2 |-> -1]}
ElecWeights == {[e1 |-> <<a>>, e2 |-> <<b>>] : a \in {-1, 1}, b \in {-1, 0, 1}}
EmbedEdges == {<<<<>>, <<>>>>, <<<<0>>, <<1>>>>, <<<<0, 1>>, <<1, 0>>>>, <<<<1, 1>>, <<0, 1>>>>}

EmbedCoeffs_init(activation, g, w) ==
    [activation |-> activation,
     z1 |-> Floats(g.z1), zb1 |-> Q(g.zb1), z2 |-> Floats(g.z2), zb2 |-> Q(g.zb2),
     e1 |-> Floats(w.e1), e2 |-> Floats(w.e2)]

InitEmbed ==
    /\ \E act \in ActivationNames, extend_orb \in BOOLEAN, tables \in ElecTables,
          elec \in [1..2 -> ElecRows], g \in GateWeights, w \in ElecWeights,
          edges \in EmbedEdges :
          coeffs = Some([e_embed_layer |->
                             EmbedElec_init(extend_orb,
                                 Tensor([o \in 1..2 |-> Floats(tables[o])])),
                         coeff_embed |-> EmbedCoeffs_init(act, g, w),
                         elec |-> elec,
                         z_embed |-> Floats(<<1, -1>>),
                         idx_j |-> edges[1], idx_i |-> edges[2],
                         e_embed |-> None,
                         cji |-> None])
    /\ pc = "ready"
    /\ data_batch = TripletBatch(1, <<>>, <<>>)
    /\ triplets = None /\ prev_triplets = None /\ distances = None
    /\ config = None /\ net = None /\ call = None
    /\ fwd = None /\ prop = None /\ resolved = None

\* e_embed = self.e_embed(z)
EmbedElectrons ==
    /\ pc = "ready"
    /\ coeffs' = Some([Get(coeffs) EXCEPT
                  !.e_embed = Some(EmbedElec_forward(Get(coeffs).e_embed_layer,
                                                     Get(coeffs).elec))])
    /\ pc' = "embedded"
    /\ UNCHANGED <<graphVars, netVars, fwd, prop, resolved>>

\* cji = self.coeff_embed(coeff_z, coeff_e, idx_i, idx_j)
EmbedCoefficients ==
    /\ pc = "embedded"
    /\ coeffs' = Some([Get(coeffs) EXCEPT
                  !.cji = Some(EmbedCoeffs_forward(Get(coeffs).coeff_embed,
                                   Get(coeffs).z_embed, Get(Get(coeffs).e_embed),
                                   Get(coeffs).idx_i, Get(coeffs).idx_j))])
    /\ pc' = "done"
    /\ UNCHANGED <<graphVars, netVars, fwd, prop, resolved>>

NextEmbed == EmbedElectrons \/ EmbedCoefficients

SpecEmbed == InitEmbed /\ [][NextEmbed]_vars

\* ------------------------------------------------ claims on the embeddings
Coeffs == Get(coeffs)

\* the orbital o of the neighbour atom j of edge e holds no electron and
\* its embedding is the padding row
IsPadding(e, o) ==
    /\ ~Coeffs.e_embed_layer.extend_orb
    /\ At(Coeffs.elec, At(Coeffs.idx_j, e))[o] = 0

\* C11: for every edge and orbital channel whose electron embedding is the
\* all-zero padding vector, the coefficient vector EmbedCoeffs.forward
\* returns is exactly zero, whatever the gate and the learned weights are
\* under the configured activation.
C11_PaddingGivesZero ==
    pc = "done" =>
        \A e \in 0..(Len(Coeffs.idx_j) - 1), o \in 1..2 :
            IsPadding(e, o) =>
                /\ At(Get(Coeffs.e_embed), At(Coeffs.idx_j, e))[o] = Q(0)
                /\ At(Get(Coeffs.cji), e)[o] = Q(0)

\* ------------------------------------- LCAOInteraction.forward, in numbers
\* hidden_dim = coeffs_dim = conv_dim = 1: a node vector is its only
\* component; a coefficient vector of f_coeffs is <<c>>, or <<c, c_valence>>
\* (the two chunks) with add_valence; the orbital axis d is kept.

\* torch_scatter.scatter(src, index, dim=0, dim_size=dim_size), reduce="sum":
\* dim_size rows when given, else index.max() + 1 rows (none for no index)
ScatterSize(index, dim_size) ==
    IF ~IsNone(dim_size) THEN Get(dim_size)
    ELSE IF index = <<>> THEN 0
    ELSE (CHOOSE m \in {index[p] : p \in 1..Len(index)} :
              \A p \in 1..Len(index) : index[p] <= m) + 1

\* faulty variant: the last value written to a row wins
ScatterLast(src, index, dim_size) ==
    Tensor([r \in 1..ScatterSize(index, dim_size) |->
        LET hits == {p \in 1..Len(index) : index[p] = r - 1}
        IN  IF hits = {} THEN Q(0)
            ELSE src[CHOOSE p \in hits : \A q \in hits : q <= p]])

Scatter(src, index, dim_size) ==
    Tensor([r \in 1..ScatterSize(index, dim_size) |->
        QSum(MaskSelect(src, Tensor([p \in 1..Len(index) |-> index[p] = r - 1])))])

\* F.normalize(v, dim=-1) of a vector of one component: v / max(|v|, eps);
\* every non-zero value of the model is larger than eps = 1e-12
F_normalize(q) ==
    IF q = Q(0) THEN Q(0) ELSE IF QLess(q, Q(0)) THEN Q(-1) ELSE Q(1)

\* torch.chunk(self.node_weight(x), 2, dim=-1) of one node
node_weight(self, x) ==
    [x  |-> Linear(<<self.wx>>, self.bx, <<x>>),
     xk |-> Linear(<<self.wk>>, self.bk, <<x>>)]

\* self.f_coeffs: Dense(no bias), act, Dense(conv_dim -> out_dim, no bias), act
f_coeffs(self, c) ==
    LET h == Activation(self.activation, Linear(<<self.c1>>, Q(0), <<c>>))
    IN  Tensor([f \in 1..Len(self.c2) |->
            Activation(self.activation, Linear(<<self.c2[f]>>, Q(0), <<h>>))])

\* self.f_three: Dense(bias), act, Dense(conv_dim -> three_out_dim, bias), act
f_three(self, s) ==
    LET h == Activation(self.activation, Linear(<<self.t1>>, self.tb1, <<s>>))
    IN  Tensor([f \in 1..Len(self.t2) |->
            Activation(self.activation, Linear(<<self.t2[f]>>, self.tb2[f], <<h>>))])

\* self.f_node: Dense(2 * conv_dim -> conv_dim, bias), act, Dense(bias), act
f_node(self, xi, xj) ==
    Activation(self.activation,
        Linear(<<self.n2>>, self.nb2,
            <<Activation(self.activation, Linear(self.n1, self.nb1, <<xi, xj>>))>>))

\* "if cutoff_w is not None: rb = rb * cutoff_w.unsqueeze(-1)"
Cutoff(rb, cutoff_w) ==
    IF IsNone(cutoff_w) THEN rb
    ELSE Tensor([e \in 1..Len(rb) |->
             Tensor([d \in 1..Len(rb[e]) |-> QMul(rb[e][d], Get(cutoff_w)[e])])])

\* torch.einsum("ed,edh->eh", basis, c) for one row e and the chunk f of c
Contract(basis, c, f) ==
    QSum(Tensor([d \in 1..Len(basis) |-> QMul(basis[d], c[d][f])]))

\* faulty variant: the mask added to the valence coefficients
ContractValenceAdded(basis, c, mask) ==
    QSum(Tensor([d \in 1..Len(basis) |-> QMul(basis[d], QAdd(c[d][2], mask[d]))]))

\* torch.einsum("ed,edh->eh", basis, c_valence * valence_mask) for one row
ContractValence(basis, c, mask) ==
    QSum(Tensor([d \in 1..Len(basis) |-> QMul(basis[d], QMul(c[d][2], mask[d]))]))

\* a + b with broadcasting along dim 0, or the RuntimeError of a mismatch
BroadcastAdd(a, b) ==
    IF Len(a) = Len(b)
    THEN [status |-> "ok", x |-> Tensor([n \in 1..Len(a) |-> QAdd(a[n], b[n])])]
    ELSE IF Len(b) = 1
    THEN [status |-> "ok", x |-> Tensor([n \in 1..Len(a) |-> QAdd(a[n], b[1])])]
    ELSE IF Len(a) = 1
    THEN [status |-> "ok", x |-> Tensor([n \in 1..Len(b) |-> QAdd(a[1], b[n])])]
    ELSE [status |-> "RuntimeError", x |-> <<>>]

\* faulty variant: the messages summed over the neighbour j of each edge
TwoBodyIndexNeighbour(idx_i, idx_j) == idx_j

\* the index the messages are summed over: scatter(..., idx_i, dim=0)
TwoBodyIndex(idx_i, idx_j) == idx_i

\* dim_size=rb.size(0)
ThreeBodyRows(rb) == Some(Len(rb))

\* one row of "F.normalize(einsum(basis, c) [+ einsum(basis, c_valence *
\* valence_mask)], dim=-1)"
Orbs(self, basis, c, mask) ==
    F_normalize(QAdd(Contract(basis, c, 1),
        IF self.add_valence THEN ContractValence(basis, c, mask) ELSE Q(0)))

\* three_body_orbs: the contraction with the basis rb[edge_idx_kj] * shb at
\* the edge kj of every triplet
ThreeBodyOrbs(self, rbw, shb, c, valence_mask, edge_idx_kj) ==
    Tensor([t \in 1..Len(shb) |->
        Orbs(self,
             Tensor([d \in 1..Len(shb[t]) |-> QMul(At(rbw, edge_idx_kj[t])[d], shb[t][d])]),
             At(c, edge_idx_kj[t]),
             IF self.add_valence THEN At(Get(valence_mask), edge_idx_kj[t]) ELSE <<>>)])

\* "three_body_orbs * torch.sigmoid(xk[tri_idx_k])"
Gated(three_body_orbs, nw, tri_idx_k) ==
    Tensor([t \in 1..Len(three_body_orbs) |->
        QMul(three_body_orbs[t], Sigmoid(At(nw, tri_idx_k[t]).xk))])

\* "cji = cji + cji * three_body_w.unsqueeze(1)"
Inject(c, three_body) ==
    Tensor([e \in 1..Len(c) |-> Tensor([d \in 1..Len(c[e]) |->
        Tensor([f \in 1..Len(c[e][d]) |->
            QAdd(c[e][d][f], QMul(c[e][d][f], three_body[e][f]))])])])

\* lcao_w: the contraction at every edge
TwoBodyOrbs(self, rbw, c, valence_mask) ==
    Tensor([e \in 1..Len(rbw) |->
        Orbs(self, rbw[e], c[e],
             IF self.add_valence THEN Get(valence_mask)[e] ELSE <<>>)])

\* "lcao_w * self.f_node(torch.cat([x[idx_i], x[idx_j]], dim=-1))" with
\* lcao_w = self.basis_weight(two_body_orbs)
Messages(self, two_body_orbs, nw, idx_i, idx_j) ==
    Tensor([e \in 1..Len(idx_i) |->
        QMul(QMul(self.bw, two_body_orbs[e]),
             f_node(self, At(nw, idx_i[e]).x, At(nw, idx_j[e]).x))])

\* LCAOInteraction.forward with the values of every stage it computes
Interaction(self, x, cji, valence_mask, cutoff_w, rb, shb, idx_i, idx_j, tri_idx_k, edge_idx_kj, edge_idx_ji) ==
    IF MaskCheckFails(self, valence_mask)
    THEN [status |-> "ValueError", x |-> <<>>]
    ELSE
    LET x_before == x
        nw == Tensor([n \in 1..Len(x) |-> node_weight(self, x[n])])
        c == Tensor([e \in 1..Len(cji) |->
                 Tensor([d \in 1..Len(cji[e]) |-> f_coeffs(self, cji[e][d])])])
        rbw == Cutoff(rb, cutoff_w)
        \* --- three-body message passing
        three_body_orbs ==
            ThreeBodyOrbs(self, rbw, shb, c, valence_mask, edge_idx_kj)
        three_body_w == Gated(three_body_orbs, nw, tri_idx_k)
        three_body_sum == Scatter(three_body_w, edge_idx_ji, ThreeBodyRows(rb))
        three_body == Tensor([e \in 1..Len(rb) |-> f_three(self, three_body_sum[e])])
        injected == Inject(c, three_body)
        \* --- two-body message passing
        two_body_orbs == TwoBodyOrbs(self, rbw, injected, valence_mask)
        messages == Messages(self, two_body_orbs, nw, idx_i, idx_j)
        two_body_sum == Scatter(messages, TwoBodyIndex(idx_i, idx_j), None)
        delta == Tensor([r \in 1..ScatterSize(TwoBodyIndex(idx_i, idx_j), None) |->
                     QMul(self.ow, two_body_sum[r])])
        sum == BroadcastAdd(x_before, delta)
    IN  [status |-> sum.status, x |-> sum.x,
         rb |-> rbw, cji |-> c,
         three_body_orbs |-> three_body_orbs, three_body_w |-> three_body_w,
         three_body_sum |-> three_body_sum, three_body |-> three_body,
         injected |-> injected, two_body_orbs |-> two_body_orbs,
         messages |-> messages, two_body_sum |-> two_body_sum, delta |-> delta]

\* ------------------------------------------------------- LCAONet.forward
\* ValenceMask.forward: self.valence[z] expanded over embed_dim, at idx_j
ValenceMask_forward(valence_z, idx_j) ==
    Gather(valence_z, idx_j)

\* faulty variant: the multiplication by the cutoff weight done in place
AfterCallInPlace(args, out) ==
    IF out.status = "ValueError" THEN args ELSE [args EXCEPT !.rb = out.rb]

\* The tensors the caller holds after a layer has returned: forward rebinds
\* its local names (rb = rb * ..., cji = self.f_coeffs(cji)) and writes to
\* no argument.
AfterCall(args, out) == args

\* one interaction layer with its weights as floats; the gate half of
\* node_weight is kept at 0 so that torch.sigmoid is taken at 0
InteractionLayer(add_valence, activation, w) ==
    [add_valence |-> add_valence, activation |-> activation,
     wx |-> Q(w.wx), bx |-> Q(w.bx), wk |-> Q(0), bk |-> Q(0),
     c1 |-> Q(w.c1),
     c2 |-> IF add_valence THEN Floats(w.c2) ELSE <<Q(w.c2[1])>>,
     t1 |-> Q(w.t1), tb1 |-> Q(w.tb1),
     t2 |-> IF add_valence THEN Floats(w.t2) ELSE <<Q(w.t2[1])>>,
     tb2 |-> IF add_valence THEN Floats(w.tb2) ELSE <<Q(w.tb2[1])>>,
     bw |-> Q(w.bw),
     n1 |-> Floats(w.n1), nb1 |-> Q(w.nb1), n2 |-> Q(w.n2), nb2 |-> Q(w.nb2),
     ow |-> Q(w.ow)]

\* "x = inte(x, cji, valence_mask, cutoff_w, rb, shb, idx_i, idx_j,
\*           tri_idx_k, edge_idx_kj, edge_idx_ji)" for the layer `inte`
CallInteraction(inte, x, args, tri) ==
    Interaction(inte, x, args.cji, args.valence_mask, args.cutoff_w, args.rb,
                args.shb, tri.idx_i, tri.idx_j,
                tri.triple_idx_k, tri.edge_idx_kj, tri.edge_idx_ji)

\* ------------------------------------------------------- forward inputs
\* the graphs: <<number of atoms, idx_j, idx_i>>
ForwardGraphs ==
    {<<1, <<>>, <<>>>>,
     <<2, <<0, 1>>, <<1, 0>>>>,
     <<2, <<1>>, <<0>>>>,
     <<3, <<0, 1>>, <<1, 0>>>>,
     <<3, <<0, 2>>, <<2, 0>>>>,
     <<3, ChainEdges(0, 1, 2)[1], ChainEdges(0, 1, 2)[2]>>,
     <<4, <<0, 1, 2, 3>>, <<2, 2, 3, 2>>>>}

\* rows of the radial basis, of the angular basis, of the coefficient
\* embedding (two orbitals), and the node embeddings
RbRows == <<<<1, 2>>, <<2, -1>>, <<1, 1>>, <<-1, 3>>>>
ShbRows == {<<<<1, 1>>, <<2, 1>>, <<1, -1>>>>, <<<<1, -2>>, <<-1, 1>>, <<3, 1>>>>}
CjiRows == {<<<<1, 2>>, <<2, 1>>, <<0, 1>>, <<1, 1>>>>, <<<<1, 0>>, <<-1, 2>>, <<2, 2>>, <<0, 0>>>>}
NodeRows == <<1, -1, 2, 3>>
CutoffRows == <<1, 2, 1, 3>>
\* self.valence[z] of the atoms: the second orbital is a valence orbital of
\* some atoms, or of none
ValenceRows == {<<<<1, 1>>, <<1, 0>>, <<1, 1>>, <<0, 1>>>>, <<<<1, 0>>, <<1, 0>>, <<0, 0>>, <<1, 0>>>>}

\* the rows of a tensor of integers with n rows
Rows(rows, n) == Tensor([p \in 1..n |-> Floats(rows[p])])

\* the weights of a layer: all zero on the coefficient and message paths;
\* f_three without and with a bias
LayerWeights ==
    <<[wx |-> 1, bx |-> 1, c1 |-> 0, c2 |-> <<0, 0>>, t1 |-> 0, tb1 |-> 0,
      t2 |-> <<0, 0>>, tb2 |-> <<0, 0>>, bw |-> 0, n1 |-> <<0, 0>>, nb1 |-> 0,
      n2 |-> 0, nb2 |-> 0, ow |-> 0],
     [wx |-> 1, bx |-> 0, c1 |-> 1, c2 |-> <<1, 2>>, t1 |-> 1, tb1 |-> 0,
      t2 |-> <<1, -1>>, tb2 |-> <<0, 0>>, bw |-> 1, n1 |-> <<1, 1>>, nb1 |-> 1,
      n2 |-> 1, nb2 |-> 1, ow |-> 1],
     [wx |-> -1, bx |-> 2, c1 |-> 2, c2 |-> <<1, 1>>, t1 |-> -1, tb1 |-> 1,
      t2 |-> <<1, 1>>, tb2 |-> <<1, 2>>, bw |-> -1, n1 |-> <<1, -1>>, nb1 |-> 0,
      n2 |-> 2, nb2 |-> 1, ow |-> 2]>>

\* the weights of layer l of a stack: the zero weights in every layer, or
\* the other two in turn
StackWeights(first, l) == IF first = 1 THEN 1 ELSE ((first + l - 3) % 2) + 2

\* the activations of the stack: the ones whose values stay small fractions
StackActivations == {"ReLU", "Hardsigmoid"}

InitForward ==
    /\ \E g \in ForwardGraphs, act \in StackActivations, n \in 0..MaxInteractions,
          cut \in BOOLEAN, c \in CjiRows,
          valence \in {None} \cup {Some(v) : v \in ValenceRows} :
       \E first \in 1..Len(LayerWeights) :
          /\ data_batch = TripletBatch(g[1], g[2], g[3])
          /\ fwd = Some([int_layers |-> Tensor([l \in 1..n |->
                             InteractionLayer(~IsNone(valence), act,
                                 LayerWeights[StackWeights(first, l)])]),
                         x0 |-> Floats(SubSeq(NodeRows, 1, g[1])),
                         x |-> Floats(SubSeq(NodeRows, 1, g[1])),
                         status |-> "ok",
                         args |-> [cji |-> Rows(c, Len(g[2])),
                                   rb |-> Rows(RbRows, Len(g[2])),
                                   shb |-> <<>>,
                                   cutoff_w |-> IF cut
                                       THEN Some(Floats(SubSeq(CutoffRows, 1, Len(g[2]))))
                                       ELSE None,
                                   valence_mask |-> IF IsNone(valence) THEN None
                                       ELSE Some(ValenceMask_forward(
                                                Rows(Get(valence), g[1]), g[2]))],
                         before |-> <<>>,
                         calls |-> <<>>])
    /\ pc = "ready"
    /\ triplets = None /\ prev_triplets = None /\ distances = None
    /\ config = None /\ net = None /\ call = None
    /\ coeffs = None /\ prop = None /\ resolved = None

Fwd == Get(fwd)

\* graph = self.get_triplets(graph) ... shb = self.shbf(angles)
ForwardTriplets ==
    /\ pc = "ready"
    /\ \E order \in BatchLayouts(data_batch), s \in ShbRows :
          /\ triplets' = Some(get_triplets(data_batch, order))
          /\ fwd' = Some([Fwd EXCEPT !.args.shb =
                              Rows(s, Len(get_triplets(data_batch, order).triple_idx_k))])
    /\ pc' = "stack"
    /\ UNCHANGED <<data_batch, prev_triplets, distances, netVars, coeffs, prop, resolved>>

\* one pass of "for inte in self.int_layers: x = inte(x, ...)"
ForwardLayer ==
    /\ pc = "stack"
    /\ Fwd.status = "ok"
    /\ Len(Fwd.calls) < Len(Fwd.int_layers)
    /\ LET inte == Fwd.int_layers[Len(Fwd.calls) + 1]
           out == CallInteraction(inte, Fwd.x, Fwd.args, Get(triplets))
       IN  fwd' = Some([Fwd EXCEPT !.x = out.x,
                                   !.status = out.status,
                                   !.args = AfterCall(Fwd.args, out),
                                   !.before = Append(Fwd.before, [x |-> Fwd.x, args |-> Fwd.args]),
                                   !.calls = Append(Fwd.calls, out)])
    /\ UNCHANGED <<pc, graphVars, netVars, coeffs, prop, resolved>>

NextForward == ForwardTriplets \/ ForwardLayer

SpecForward == InitForward /\ [][NextForward]_vars

\* ------------------------------------------- claims on the interaction
Graph == Get(triplets)
NumCalls == Len(Fwd.calls)

\* atom a is the source or the target of some edge
HasEdge(a) == \E e \in EdgeIds : Src(e) = a \/ Dst(e) = a

\* C12: for any graph with N atoms, one layer returns N embedding rows and
\* leaves the embedding of every atom that has no edges equal to its input;
\* for a single atom with no edges the output equals the input.
C12_IsolatedAtomsKept ==
    \A p \in 1..(IF IsNone(fwd) THEN 0 ELSE NumCalls) :
        /\ Fwd.calls[p].status = "ok"
        /\ Len(Fwd.calls[p].x) = NumNodes
        /\ \A a \in 0..(NumNodes - 1) :
              ~HasEdge(a) => At(Fwd.calls[p].x, a) = At(Fwd.before[p].x, a)

\* every weight of the coefficient path and of the message path is zero
ZeroPaths(inte) ==
    /\ inte.c1 = Q(0) /\ \A f \in 1..Len(inte.c2) : inte.c2[f] = Q(0)
    /\ inte.t1 = Q(0) /\ inte.tb1 = Q(0)
    /\ \A f \in 1..Len(inte.t2) : inte.t2[f] = Q(0) /\ inte.tb2[f] = Q(0)
    /\ inte.bw = Q(0)
    /\ inte.n1 = <<Q(0), Q(0)>> /\ inte.nb1 = Q(0) /\ inte.n2 = Q(0) /\ inte.nb2 = Q(0)
    /\ inte.ow = Q(0)

\* C13: for any graph and any number of stacked layers whose coefficient-path
\* and message-path weights are all zero, the node embeddings after every
\* layer equal the embeddings before the first layer, for every atom.
C13_ZeroWeightsKeepEmbeddings ==
    \A p \in 1..(IF IsNone(fwd) THEN 0 ELSE NumCalls) :
        (\A l \in 1..p : ZeroPaths(Fwd.int_layers[l])) =>
            /\ Fwd.calls[p].status = "ok"
            /\ Fwd.calls[p].x = Fwd.x0

\* orbital channel d is a valence orbital of no atom: its mask is all zero
MaskedOut(d) ==
    /\ ~IsNone(Fwd.args.valence_mask)
    /\ \A e \in 1..NumEdges : Get(Fwd.args.valence_mask)[e][d] = Q(0)

\* a row of orbital channels without channel d, and a tensor of such rows
Drop(row, d) ==
    Tensor([o \in 1..(Len(row) - 1) |-> IF o < d THEN row[o] ELSE row[o + 1]])
Without(rows, d) == Tensor([r \in 1..Len(rows) |-> Drop(rows[r], d)])

\* the arguments of a layer with channel d removed from the coefficient,
\* radial and angular inputs (and from the mask)
ArgsWithout(args, d) ==
    [args EXCEPT !.cji = Without(@, d), !.rb = Without(@, d), !.shb = Without(@, d),
                 !.valence_mask = Some(Without(Get(@), d))]

\* C14 as stated: with valence masking enabled, an all-zero mask of an
\* orbital channel yields the same node embeddings as running the layer with
\* that channel removed from the coefficient, radial and angular inputs.
C14_MaskedIsRemoved ==
    \A p \in 1..(IF IsNone(fwd) THEN 0 ELSE NumCalls), d \in 1..2 :
        MaskedOut(d) =>
            Fwd.calls[p].x =
                CallInteraction(Fwd.int_layers[p], Fwd.before[p].x,
                                ArgsWithout(Fwd.before[p].args, d), Graph).x

\* rb[edge_idx_kj] * shb of triplet t in call p
Basis(p, t) ==
    Tensor([d \in 1..2 |-> QMul(At(Fwd.calls[p].rb, Graph.edge_idx_kj[t])[d],
                                Fwd.before[p].args.shb[t][d])])

\* C14 (amended): with valence masking enabled, an all-zero mask of an
\* orbital channel removes that channel from the valence terms only: each
\* three-body and two-body response is the normalised sum of the unmasked
\* term over all channels and the valence term over the other channels.
C14_MaskedValenceRemoved ==
    \A p \in 1..(IF IsNone(fwd) THEN 0 ELSE NumCalls), d \in 1..2 :
        MaskedOut(d) =>
            LET out == Fwd.calls[p]
                mask == Get(Fwd.before[p].args.valence_mask)
            IN  /\ \A t \in 1..Len(Graph.edge_idx_kj) :
                      out.three_body_orbs[t] =
                          F_normalize(QAdd(
                              Contract(Basis(p, t), At(out.cji, Graph.edge_idx_kj[t]), 1),
                              ContractValence(Drop(Basis(p, t), d),
                                  Drop(At(out.cji, Graph.edge_idx_kj[t]), d),
                                  Drop(At(mask, Graph.edge_idx_kj[t]), d))))
                /\ \A e \in 1..NumEdges :
                      out.two_body_orbs[e] =
                          F_normalize(QAdd(
                              Contract(out.rb[e], out.injected[e], 1),
                              ContractValence(Drop(out.rb[e], d),
                                  Drop(out.injected[e], d), Drop(mask[e], d))))

\* a layer with a masked-out second channel has run on a graph with
\* triplets, the valence coefficient of that channel not being zero
C14_Witness ==
    /\ ~IsNone(fwd) /\ NumCalls > 0
    /\ MaskedOut(2) /\ ~MaskedOut(1)
    /\ Fwd.calls[1].status = "ok"
    /\ Len(Graph.edge_idx_kj) > 0
    /\ \E e \in 1..NumEdges : Fwd.calls[1].injected[e][2][2] # Q(0)

\* the sum of f[t] over the triplets (edges) t of the set S
RECURSIVE QSumOver(_, _)
QSumOver(f, S) ==
    IF S = {} THEN Q(0)
    ELSE LET t == CHOOSE t \in S : TRUE IN QAdd(f[t], QSumOver(f, S \ {t}))

\* the triplets whose ji edge is edge e
TripletsOn(e) == {t \in 1..Len(Graph.edge_idx_ji) : Graph.edge_idx_ji[t] = e}

\* C15: the gated per-triplet responses are summed per ji edge into an array
\* with exactly E rows: row e is the sum over exactly the triplets t with
\* edge_idx_ji[t] = e, an edge that is the ji edge of no triplet gets an
\* all-zero aggregate, and the result does not depend on the order of the
\* triplets.
C15_SumPerJiEdge ==
    \A p \in 1..(IF IsNone(fwd) THEN 0 ELSE NumCalls) :
        LET out == Fwd.calls[p] IN
        /\ Len(out.three_body_sum) = NumEdges
        /\ \A e \in EdgeIds :
              /\ At(out.three_body_sum, e) = QSumOver(out.three_body_w, TripletsOn(e))
              /\ TripletsOn(e) = {} => At(out.three_body_sum, e) = Q(0)
        /\ \A s \in 1..(Len(out.three_body_w) - 1) :
              Scatter(SwapAt(out.three_body_w, s), SwapAt(Graph.edge_idx_ji, s),
                      Some(NumEdges)) = out.three_body_sum

\* a layer has summed two triplets with different responses into one edge,
\* beside an edge without triplets
C15_Witness ==
    /\ ~IsNone(fwd) /\ NumCalls > 0
    /\ \E e \in EdgeIds :
          /\ Cardinality(TripletsOn(e)) = 2
          /\ \E t \in TripletsOn(e), u \in TripletsOn(e) :
                Fwd.calls[1].three_body_w[t] # Fwd.calls[1].three_body_w[u]
    /\ \E e \in EdgeIds : TripletsOn(e) = {}

EdgesFrom(n) == {e \in 1..NumEdges : Src(e - 1) = n}
EdgesInto(n) == {e \in 1..NumEdges : Dst(e - 1) = n}

C18_LayersInSequence ==
    (~IsNone(fwd) /\ pc = "stack") =>
        /\ Fwd.x = IF NumCalls = 0 THEN Fwd.x0 ELSE Fwd.calls[NumCalls].x
        /\ \E o \in BatchLayouts(data_batch) : Graph = get_triplets(data_batch, o)
        /\ \A p \in 1..NumCalls :
              /\ Fwd.before[p].x = IF p = 1 THEN Fwd.x0 ELSE Fwd.calls[p - 1].x
              /\ Fwd.before[p].args = Fwd.args
              /\ Fwd.calls[p].rb = Cutoff(Fwd.before[1].args.rb, Fwd.args.cutoff_w)

\* two layers have run with a cutoff weight that changes the radial basis
C18_Witness ==
    /\ ~IsNone(fwd) /\ pc = "stack" /\ NumCalls = 2
    /\ Fwd.calls[2].status = "ok"
    /\ ~IsNone(Fwd.args.cutoff_w)
    /\ Fwd.calls[2].rb # Fwd.args.rb
    /\ Fwd.calls[2].x # Fwd.calls[1].x /\ Fwd.calls[1].x # Fwd.x0

\* ---------------------------------------------------------- output layers
\* a / n
QDiv(a, n) == QMul(a, Frac(1, n))

\* faulty variant: every reduction is a sum
ReduceSum(src, index, reduce) ==
    Scatter(src, index, None)

\* torch_scatter.scatter(src, index, dim=0, reduce=reduce): the sum of the
\* rows with the same index, divided for "mean" by their number (at least 1)
ScatterReduce(src, index, reduce) ==
    LET sum == Scatter(src, index, None)
    IN  IF reduce = "sum" THEN sum
        ELSE Tensor([r \in 1..Len(sum) |->
                 LET count == Cardinality({p \in 1..Len(index) : index[p] = r - 1})
                 IN  QDiv(sum[r], IF count < 1 THEN 1 ELSE count)])

\* self.out_lin with hidden_dim = 2, out_dim = 1:
\* Dense(2, 2), act, Dense(2, 1), act, Dense(1, 1), all with bias
out_lin(self, x) ==
    LET h == Tensor([f \in 1..2 |->
                 Activation(self.activation, Linear(self.w1[f], self.b1[f], x))])
    IN  Linear(<<self.w3>>, self.b3,
               <<Activation(self.activation, Linear(self.w2, self.b2, h))>>)

\* LCAOOut.forward
LCAOOut_forward(self, x, batch_idx) ==
    LET out == Tensor([n \in 1..Len(x) |-> out_lin(self, x[n])])
    IN  IF ~IsNone(batch_idx)
        THEN ScatterReduce(out, Get(batch_idx),
                           IF self.is_extensive THEN "sum" ELSE "mean")
        ELSE IF self.is_extensive THEN <<QSum(out)>>
        ELSE <<QDiv(QSum(out), Len(out))>>

\* self.predict with in_dim = 2, hidden_dim = out_dim = 1:
\* Dense(2, 1, bias), act, Dense(1, 1, no bias)
predict(self, x) ==
    Linear(<<self.w3>>, Q(0),
           <<Activation(self.activation, Linear(self.w2, self.b2, x))>>)

\* global_add_pool / global_mean_pool (x, batch): the reduction over all
\* rows, kept as one row, without a batch
Pool(aggr, src, batch) ==
    IF IsNone(batch)
    THEN IF aggr = "add" THEN <<QSum(src)>> ELSE <<QDiv(QSum(src), Len(src))>>
    ELSE ScatterReduce(src, Get(batch), IF aggr = "add" THEN "sum" ELSE "mean")

\* Node2Property2.forward; a scaler is an element-wise scale and shift
Node2Property2_forward(self, x, batch) ==
    LET out == Tensor([n \in 1..Len(x) |-> predict(self, x[n])])
        scaled == IF IsNone(self.scaler) THEN out
                  ELSE Tensor([n \in 1..Len(out) |->
                           QAdd(QMul(out[n], Get(self.scaler).scale), Get(self.scaler).shift)])
    IN  Pool(self.aggr, scaled, batch)

\* ------------------------------------------------------------ output inputs
OutRows == <<<<1, 2>>, <<-1, 1>>, <<2, 0>>, <<3, -1>>, <<0, 1>>>>
OutWeights ==
    {[w1 |-> <<<<1, 0>>, <<0, 1>>>>, b1 |-> <<0, 0>>, w2 |-> <<1, 1>>, b2 |-> 0,
      w3 |-> 1, b3 |-> 0],
     [w1 |-> <<<<1, -1>>, <<2, 1>>>>, b1 |-> <<1, 0>>, w2 |-> <<1, -1>>, b2 |-> 2,
      w3 |-> -1, b3 |-> 1]}
Scalers == {None, Some([scale |-> Q(2), shift |-> Q(1)])}

\* the output layer of LCAONet (scaler None) or of SchNet
OutLayer(kind, extensive, activation, w, scaler) ==
    [kind |-> kind, is_extensive |-> extensive,
     aggr |-> IF extensive THEN "add" ELSE "mean",
     activation |-> activation, scaler |-> scaler,
     w1 |-> Tensor([f \in 1..2 |-> Floats(w.w1[f])]), b1 |-> Floats(w.b1),
     w2 |-> Floats(w.w2), b2 |-> Q(w.b2), w3 |-> Q(w.w3), b3 |-> Q(w.b3)]

InitOut ==
    /\ \E n \in 1..MaxNodes, extensive \in BOOLEAN, act \in StackActivations,
          w \in OutWeights, kind \in {"LCAOOut", "Node2Property2"}, scaler \in Scalers :
       \E batch \in {None} \cup {Some(b) : b \in [1..n -> 0..(n - 1)]} :
          /\ kind = "LCAOOut" => IsNone(scaler)
          /\ prop = Some([layer |-> OutLayer(kind, extensive, act, w, scaler),
                          x |-> Rows(OutRows, n),
                          batch_idx |-> batch,
                          out |-> None])
    /\ pc = "ready"
    /\ data_batch = TripletBatch(1, <<>>, <<>>)
    /\ triplets = None /\ prev_triplets = None /\ distances = None
    /\ config = None /\ net = None /\ call = None
    /\ coeffs = None /\ fwd = None /\ resolved = None

Prop == Get(prop)

\* out = self.out_layer(x, batch_idx)
OutputProperty ==
    /\ pc = "ready"
    /\ Prop.layer.kind = "LCAOOut"
    /\ prop' = Some([Prop EXCEPT !.out =
                        Some(LCAOOut_forward(Prop.layer, Prop.x, Prop.batch_idx))])
    /\ pc' = "done"
    /\ UNCHANGED <<graphVars, netVars, coeffs, fwd, resolved>>

\* Node2Property2(...)(x, batch)
OutputProperty2 ==
    /\ pc = "ready"
    /\ Prop.layer.kind = "Node2Property2"
    /\ prop' = Some([Prop EXCEPT !.out =
                        Some(Node2Property2_forward(Prop.layer, Prop.x, Prop.batch_idx))])
    /\ pc' = "done"
    /\ UNCHANGED <<graphVars, netVars, coeffs, fwd, resolved>>

NextOut == OutputProperty \/ OutputProperty2

SpecOut == InitOut /\ [][NextOut]_vars

\* ----------------------------------------------- claims on the output
\* the output of atom n before the reduction
PerAtom ==
    Tensor([n \in 1..Len(Prop.x) |->
        IF Prop.layer.kind = "LCAOOut" THEN out_lin(Prop.layer, Prop.x[n])
        ELSE IF IsNone(Prop.layer.scaler) THEN predict(Prop.layer, Prop.x[n])
        ELSE QAdd(QMul(predict(Prop.layer, Prop.x[n]), Get(Prop.layer.scaler).scale),
                  Get(Prop.layer.scaler).shift)])

\* the atoms of structure b
AtomsOf(b) == {n \in 1..Len(Prop.x) : Get(Prop.batch_idx)[n] = b}

\* the layer applied with every atom assigned to structure 0
WithZeroBatch ==
    LET zeros == Some(Tensor([n \in 1..Len(Prop.x) |-> 0]))
    IN  IF Prop.layer.kind = "LCAOOut"
        THEN LCAOOut_forward(Prop.layer, Prop.x, zeros)
        ELSE Node2Property2_forward(Prop.layer, Prop.x, zeros)

\* C19: row b of the output combines exactly the atoms whose batch id is b,
\* by sum when the layer is extensive and by mean otherwise; without a batch
\* assignment the result is the single row of an all-zero batch assignment.
C19_ReduceByBatch ==
    (pc = "done" /\ ~IsNone(prop)) =>
        IF IsNone(Prop.batch_idx)
        THEN /\ Len(Get(Prop.out)) = 1
             /\ Get(Prop.out) = WithZeroBatch
        ELSE /\ \A n \in 1..Len(Prop.x) : Get(Prop.batch_idx)[n] < Len(Get(Prop.out))
             /\ \A b \in 0..(Len(Get(Prop.out)) - 1) :
                   At(Get(Prop.out), b) =
                      IF AtomsOf(b) = {} THEN Q(0)
                      ELSE IF Prop.layer.is_extensive THEN QSumOver(PerAtom, AtomsOf(b))
                      ELSE QDiv(QSumOver(PerAtom, AtomsOf(b)), Cardinality(AtomsOf(b)))

\* a mean over two structures, one of them with two atoms, has been taken
C19_Witness ==
    /\ pc = "done" /\ ~IsNone(prop) /\ ~IsNone(Prop.batch_idx)
    /\ ~Prop.layer.is_extensive
    /\ Len(Get(Prop.out)) = 2
    /\ Cardinality(AtomsOf(0)) = 2 /\ Cardinality(AtomsOf(1)) = 1
    /\ At(Get(Prop.out), 0) # QSumOver(PerAtom, AtomsOf(0))
    /\ At(Get(Prop.out), 0) # At(Get(Prop.out), 1)

\* ------------------------------------------------- calls of the resolvers
\* spellings of selectors: names the resolvers know, under their own and
\* under the other resolver, and names neither knows
SelectorNames ==
    {<<"r", "e", "l", "u">>, <<"s", "i", "l", "u">>, <<"s", "w", "i", "s", "h">>,
     <<"o", "r", "t", "h", "o", "g", "o", "n", "a", "l">>,
     <<"g", "l", "o", "r", "o", "t", "o", "r", "t", "h", "o", "g", "o", "n", "a", "l">>,
     <<"r", "e", "l">>, <<"r", "e", "l", "u", "x">>, <<"l", "i", "n", "e", "a", "r">>,
     <<"R", "e", "L", "U">>, <<"S", "I", "L", "U">>, <<"S", "w", "i", "s", "h">>,
     <<"O", "r", "t", "h", "o", "g", "o", "n", "a", "l">>, <<"R", "E", "L", "X">>,
     <<>>}

\* the name with the separator sep put in after its first p characters
Separated(s, p, sep) == SubSeq(s, 1, p) \o <<sep>> \o SubSeq(s, p + 1, Len(s))

Queries ==
    UNION {{s} \cup {Separated(s, p, sep) : p \in 0..Len(s), sep \in {"-", "_", " ", "."}}
           : s \in SelectorNames}

InitResolve ==
    /\ \E which \in {"activation_resolver", "init_resolver"}, query \in Queries :
          resolved = Some([which |-> which, query |-> query, out |-> None])
    /\ pc = "ready"
    /\ data_batch = TripletBatch(1, <<>>, <<>>)
    /\ triplets = None /\ prev_triplets = None /\ distances = None
    /\ config = None /\ net = None /\ call = None
    /\ coeffs = None /\ fwd = None /\ prop = None

Resolved == Get(resolved)

\* activation_resolver(query)
ResolveActivation ==
    /\ pc = "ready" /\ ~IsNone(resolved) /\ Resolved.which = "activation_resolver"
    /\ resolved' = Some([Resolved EXCEPT !.out = Some(activation_resolver(Resolved.query))])
    /\ pc' = "done"
    /\ UNCHANGED <<graphVars, netVars, coeffs, fwd, prop>>

\* init_resolver(query)
ResolveInit ==
    /\ pc = "ready" /\ ~IsNone(resolved) /\ Resolved.which = "init_resolver"
    /\ resolved' = Some([Resolved EXCEPT !.out = Some(init_resolver(Resolved.query))])
    /\ pc' = "done"
    /\ UNCHANGED <<graphVars, netVars, coeffs, fwd, prop>>

NextResolve == ResolveActivation \/ ResolveInit

SpecResolve == InitResolve /\ [][NextResolve]_vars

\* ------------------------------------------------ claims on the resolvers
\* the spelling with '-', '_' and spaces removed and every letter lower case
Plain(s) ==
    LET kept == SelectSeq(s, LAMBDA c : c # "-" /\ c # "_" /\ c # " ")
    IN  [p \in 1..Len(kept) |-> LowerChar(kept[p])]

\* the variants of the called resolver whose name the selector spells
Variants ==
    {cls \in (IF Resolved.which = "activation_resolver" THEN ActivationClasses ELSE InitFunctions) :
        Plain(cls) = Plain(Resolved.query)}

\* C20: a selector whose normalised spelling names no supported variant is
\* rejected with an error when it is resolved, never answered with a default,
\* and a selector that names a variant resolves to that variant.
C20_UnknownSelectorRejected ==
    (pc = "done" /\ ~IsNone(resolved)) =>
        IF Variants = {} THEN Get(Resolved.out).status = "ValueError"
        ELSE /\ Get(Resolved.out).status = "ok"
             /\ Get(Resolved.out).cls \in Variants

\* an unknown selector that is one separator-free character away from a
\* known one has been rejected
C20_Witness ==
    /\ pc = "done" /\ ~IsNone(resolved)
    /\ Resolved.which = "activation_resolver"
    /\ Resolved.query = <<"r", "e", ".", "l", "u">>
    /\ Get(Resolved.out).status = "ValueError"

====
